---- MODULE Spec2Model ----
(***************************************************************************)
(* A model of bot.py: the persisted watch store (data.json), the tracker   *)
(* loop and the command handlers that read and write it.                   *)
(*                                                                         *)
(* The tracker is one asyncio task; the handlers run one update at a time. *)
(* A task gives up control only at an await, so every action below is the  *)
(* code between two awaits of one task.  The handlers list_accounts and    *)
(* stats only read the store and are left out.                             *)
(*                                                                         *)
(* A Python dict is a function whose DOMAIN is its key set.  A user's      *)
(* entry {"accounts": {name: {"last_tweet_id": id}}, "meta": {}} is the    *)
(* function name -> id.  The loops over dicts take their keys in any       *)
(* order (the insertion order of a dict depends on the whole history).     *)
(***************************************************************************)
EXTENDS Integers, Sequences, FiniteSets, TLC

\* ---------------------------------------------------------------- bounds
NumSubs == 2
NumCallers == 1
NumTargets == 2
NumPosts == 2

\* ------------------------------------------------------ program constants
MAX_ACCOUNTS == 5

\* Python's None: a watch without a baseline, a fetch without a result.
None == 0

\* The subscribers, and those of them who send updates while the model
\* runs (the others are in the store from the start and keep silent).
Subs == 1..NumSubs
Callers == 1..NumCallers
Targets == 1..NumTargets
PostIds == 1..NumPosts

\* A text message: an optional leading "@" and a name (None: nothing left
\* once "@" and blanks are stripped).
Texts == [at : BOOLEAN, name : {None} \cup Targets]

\* What the page request of a fetch comes back with: an exception or a
\* status, and the id in the first /status/ link of the page (None: no
\* such link).
Response(raises, status, href) == [raises |-> raises, status |-> status, href |-> href]

Responses ==
  {Response(TRUE, 200, None), Response(FALSE, 404, None)}
    \cup {Response(FALSE, 200, id) : id \in {None} \cup PostIds}

\* The inputs of the capacity scenario: one subscriber, one target more
\* than the limit, of which only the last two are added and removed.
CapSubs == {1}
CapNames == {MAX_ACCOUNTS, MAX_ACCOUNTS + 1}
CapTexts == [at : {FALSE}, name : CapNames]
CapResponses == {Response(FALSE, 404, None), Response(FALSE, 200, 1)}

VARIABLES
  store,      \* data.json: [kind, map]
  adding,     \* the users whose context.user_data["adding"] is true
  pc,         \* where the tracker is: load, fetch, diff, send, sleep
  data,       \* tracker_loop's data
  watch_map,  \* tracker_loop's watch_map
  todo,       \* the keys of watch_map the for loop has not taken yet
  cur,        \* username of the current iteration
  latest,     \* latest_id
  users,      \* the users_watching the inner loop has not taken yet
  curUser,    \* user_id of the iteration waiting in send_message
  hnd,        \* a handler waiting in an await before its save: [pc, user, data]
  log,        \* history: target -> the results of its fetches in this cycle
  sent,       \* history: <<user, target>> -> the notifications attempted
              \* for that watch in this cycle
  added,      \* history: the watches added (and not removed by their
              \* subscriber) since the cycle's load
  told,       \* history: <<user, target>> -> the post id the user was last
              \* notified about, while the fetch for target keeps returning
              \* it and the watch stays in place
  reply,      \* history: what the last step sent to a user
  failed      \* history: the watches whose stored id the tracker has set in
              \* this cycle with a write that failed

vars == <<store, adding, pc, data, watch_map, todo, cur, latest, users,
          curUser, hnd, log, sent, added, told, reply, failed>>

trackerVars == <<pc, data, watch_map, todo, cur, latest, users, curUser>>
cycleHist == <<log, sent, failed>>

\* ------------------------------------------------------------- dicts
EmptyMap == [k \in {} |-> None]

Put(f, k, v) == [x \in DOMAIN f \cup {k} |-> IF x = k THEN v ELSE f[x]]

Pop(f, k) == [x \in DOMAIN f \ {k} |-> f[x]]

Get(f, k, default) == IF k \in DOMAIN f THEN f[k] ELSE default

\* ------------------------------------------------------------ replies
\* What the last step sent to user u: the notification of the tracker,
\* delivered or not, or the reply of a handler (the one it called
\* reply_text with), by its kind.  Only the replies to an add and to the
\* text that follows it are told apart from the others.
Reply(msg, u) ==
  IF msg \in {"max", "limit", "invalid", "already", "added",
              "delivered", "undelivered"}
    THEN [user |-> u, msg |-> msg]
    ELSE [user |-> None, msg |-> "other"]

NoReply == Reply("other", None)

\* ------------------------------------------------------------ the store
File(kind, map) == [kind |-> kind, map |-> map]

\* load_data: {} when the file is absent or does not parse, else what the
\* file holds.
load_data ==
  IF store.kind = "json" THEN store.map ELSE EmptyMap

\* A file that parses to something that is no JSON object (a list, null):
\* load_data returns it, and the first use of it as a dict raises.
NotADict == store.kind = "malformed"

\* save_data(d): the file holds d, or the write fails, which is logged and
\* swallowed and leaves the file as it was.
save_data(d, written) ==
  IF written THEN File("json", d) ELSE store

ensure_user(d, u) ==
  IF u \in DOMAIN d THEN d ELSE Put(d, u, EmptyMap)

\* user_obj.get("accounts", {})
Accounts(d, u) == Get(d, u, EmptyMap)

\* The watch set of a user in the persisted store.
Watches(u) == DOMAIN Accounts(load_data, u)

\* ------------------------------------------------------------- fetch
\* fetch_latest_tweet_id_and_text: None on an exception, a status other
\* than 200 or a page without a /status/ link, else the id in the link.
fetch_latest(resp) ==
  IF resp.raises THEN None
  ELSE IF resp.status # 200 THEN None
  ELSE IF resp.href = None THEN None
  ELSE resp.href

\* --------------------------------------------------------- the tracker
\* username -> the user_ids that track it (lines 110-114)
BuildWatchMap(d) ==
  [t \in UNION {DOMAIN d[u] : u \in DOMAIN d} |-> {u \in DOMAIN d : t \in DOMAIN d[u]}]

\* acc_info.get("last_tweet_id") of user_accounts.get(username, {})
LastId(d, u, t) == Get(Accounts(d, u), t, None)

\* accounts[username] = {"last_tweet_id": id} (lines 150 and 212)
SetLastId(d, u, t, id) == Put(d, u, Put(Accounts(d, u), t, id))

\* A comparison that finds no fetched id new.
IsNewNever(last, new) == FALSE

\* A comparison that is missing: every fetched id counts as new.
IsNewAlways(last, new) == TRUE

\* last_id != latest_id
IsNew(last, new) == last # new

\* The stored id is set only when the notification was delivered.
AdvanceIfDelivered(d, u, t, id, delivered) ==
  IF delivered THEN SetLastId(d, u, t, id) ELSE d

\* Line 150 stands after the try of lines 141-148: the stored id is set
\* whether send_message returned or raised.
Advance(d, u, t, id, delivered) == SetLastId(d, u, t, id)

\* A failed fetch that ends the for loop instead of going on with it.
AfterNoInfoBreak(td) == "sleep"

\* Line 126: continue with the next username, if any.
AfterNoInfo(td) == IF td # {} THEN "fetch" ELSE "sleep"

\* A for loop that does not move past the username it has taken.
RemainingSame(td, t) == td

\* Line 122: the for loop takes every key of watch_map once.
Remaining(td, t) == td \ {t}


\* Where the loops go once the inner loop has `us` left and the outer `td`.
AfterUser(us, td) ==
  IF us # {} THEN "diff" ELSE IF td # {} THEN "fetch" ELSE "sleep"

\* A link with the username and the id in each other's place.
LinkSwapped(t, id) == <<id, t>>

\* A send_message whose exception ends the cycle.
AfterSendAbort(delivered, us, td) ==
  IF delivered THEN AfterUser(us, td) ELSE "sleep"

\* Lines 147-148: the exception of send_message is caught and logged inside
\* the inner loop, which goes on as after a send_message that returned.
AfterSend(delivered, us, td) == AfterUser(us, td)

\* The link of a notification: https://x.com/{username}/status/{latest_id}
Link(t, id) == <<t, id>>

\* The send_message of lines 142-145: chat_id, and the text with the
\* username and the link.
Message(u, t, id) == [chat |-> u, name |-> t, link |-> Link(t, id)]

\* A failed write that takes the assignment of line 150 back.
AfterSaveRollback(old, new, written) == IF written THEN new ELSE old

\* Lines 150-151: save_data returns nothing and raises nothing, so data
\* keeps the assignment of line 150 whether or not the write took place.
AfterSave(old, new, written) == new

\* A loop that an exception in the cycle body ends.
AfterRaiseStop == "stopped"

\* Lines 153-155: an exception raised in the cycle body is logged, and the
\* loop goes on to its sleep.
AfterRaise == "sleep"

\* A cycle that goes to its for loop with an empty watch_map.
AfterLoadFetch(td) == "fetch"

\* Lines 116-119: with an empty watch_map the cycle sleeps at once.
AfterLoad(td) == IF td = {} THEN "sleep" ELSE "fetch"

\* Lines 108-119: load, build watch_map; sleep at once when it is empty or
\* when the loaded value is no dict (data.items() raises, line 153 logs).
TrackerLoad ==
  /\ pc = "load"
  /\ IF NotADict
       THEN /\ data' = EmptyMap
            /\ watch_map' = EmptyMap
            /\ todo' = {}
            /\ pc' = AfterRaise
            /\ told' = EmptyMap
       ELSE /\ data' = load_data
            /\ watch_map' = BuildWatchMap(data')
            /\ todo' = DOMAIN watch_map'
            /\ pc' = AfterLoad(todo')
            /\ told' = [w \in {x \in DOMAIN told : x[2] \in todo'} |-> told[w]]
  /\ reply' = NoReply
  /\ UNCHANGED <<store, adding, cur, latest, users, curUser, hnd, log, sent, added,
                 failed>>

\* Lines 122-128: the next username of watch_map and its fetch.
TrackerFetch(t, resp) ==
  /\ pc = "fetch"
  /\ t \in todo
  /\ LET info == fetch_latest(resp) IN
       /\ log' = Put(log, t, Append(Get(log, t, <<>>), info))
       /\ todo' = Remaining(todo, t)
       /\ told' = [w \in {x \in DOMAIN told : x[2] # t \/ told[x] = info} |-> told[w]]
       /\ IF info = None
            THEN /\ pc' = AfterNoInfo(todo')
                 /\ UNCHANGED <<cur, latest, users>>
            ELSE /\ cur' = t
                 /\ latest' = info
                 /\ users' = watch_map[t]
                 /\ pc' = "diff"
  /\ reply' = NoReply
  /\ UNCHANGED <<store, adding, data, watch_map, curUser, hnd, sent, added, failed>>

\* Lines 131-139: the next user watching the username; an id that differs
\* from the stored one leads to send_message.
TrackerCompare(u) ==
  /\ pc = "diff"
  /\ u \in users
  /\ users' = users \ {u}
  /\ IF IsNew(LastId(data, u, cur), latest)
       THEN /\ pc' = "send"
            /\ curUser' = u
       ELSE /\ pc' = AfterUser(users', todo)
            /\ curUser' = curUser
  /\ reply' = NoReply
  /\ UNCHANGED <<store, adding, data, watch_map, todo, cur, latest, hnd,
                 log, sent, added, told, failed>>

\* Lines 141-151: send_message returns or raises (logged); the stored id is
\* set and the whole of data is saved.
TrackerNotify(delivered, written) ==
  /\ pc = "send"
  /\ LET advanced == Advance(data, curUser, cur, latest, delivered) IN
       /\ store' = save_data(advanced, written)
       /\ data' = AfterSave(data, advanced, written)
  /\ failed' = IF written THEN failed ELSE failed \cup {<<curUser, cur>>}
  /\ pc' = AfterSend(delivered, users, todo)
  /\ sent' = Put(sent, <<curUser, cur>>,
                 Append(Get(sent, <<curUser, cur>>, <<>>),
                        Message(curUser, cur, latest)))
  /\ told' = Put(told, <<curUser, cur>>, latest)
  /\ reply' = Reply(IF delivered THEN "delivered" ELSE "undelivered", curUser)
  /\ UNCHANGED <<adding, watch_map, todo, cur, latest, users, curUser, hnd,
                 log, added>>

\* Lines 118 and 155: the sleep ends and the next iteration of the while
\* loop starts; what the last one left in its variables is dead, and the
\* history of the cycle starts anew.
TrackerWake ==
  /\ pc = "sleep"
  /\ pc' = "load"
  /\ data' = EmptyMap
  /\ watch_map' = EmptyMap
  /\ cur' = None /\ latest' = None /\ users' = {} /\ curUser' = None
  /\ log' = EmptyMap
  /\ sent' = EmptyMap
  /\ added' = {}
  /\ failed' = {}
  /\ reply' = NoReply
  /\ UNCHANGED <<store, adding, todo, hnd, told>>

\* ------------------------------------------------------- the handlers
\* The application handles one update at a time (the default of
\* ApplicationBuilder), so a handler starts only when none is in progress.
\* A reply_text that raises ends its handler there (error_handler logs
\* it): `replied` tells whether it returned.
Idle == [pc |-> "idle", user |-> None, data |-> EmptyMap]

\* A handler whose ensure_user raises on a loaded value that is no dict:
\* error_handler logs it and nothing is changed.
HandlerRaises(u) ==
  /\ NotADict
  /\ reply' = Reply("other", u)
  /\ UNCHANGED <<store, adding, hnd, added, told>>

\* text.replace("@", "").strip()
Username(text) == text.name

\* A limit that is compared with > instead of >=.
AtLimitOver(d, u) == Cardinality(DOMAIN Accounts(d, u)) > MAX_ACCOUNTS

\* A limit that is not checked.
AtLimitNever(d, u) == FALSE

\* len(user_obj.get("accounts", {})) >= MAX_ACCOUNTS
AtLimit(d, u) == Cardinality(DOMAIN Accounts(d, u)) >= MAX_ACCOUNTS

\* A check of line 206 that finds no username in the list.
AlreadyNever(d, u, username) == FALSE

\* username in user_obj.get("accounts", {})
Already(d, u, username) == username \in DOMAIN Accounts(d, u)

\* Lines 158-172
start(u, written) ==
  /\ hnd.pc = "idle"
  /\ \/ HandlerRaises(u)
     \/ /\ ~NotADict
        /\ store' = save_data(ensure_user(load_data, u), written)
        /\ reply' = Reply("welcome", u)
        /\ UNCHANGED <<adding, hnd, added, told>>
  /\ UNCHANGED <<trackerVars, cycleHist>>

\* Lines 174-185
add(u, written, replied) ==
  /\ hnd.pc = "idle"
  /\ \/ HandlerRaises(u)
     \/ /\ ~NotADict
        /\ LET d == ensure_user(load_data, u) IN
             /\ store' = save_data(d, written)
             /\ IF AtLimit(d, u)
                  THEN /\ adding' = adding
                       /\ reply' = Reply("max", u)
                  ELSE /\ adding' = IF replied THEN adding \cup {u} ELSE adding
                       /\ reply' = Reply("prompt", u)
        /\ UNCHANGED <<hnd, added, told>>
  /\ UNCHANGED <<trackerVars, cycleHist>>

\* The tracker has loaded its data and has not reached its sleep.
InCycle == pc \in {"fetch", "diff", "send"}

\* Lines 187-216.  The branch of line 194 replies (an await) before it
\* saves: the handler waits there with its data, and handle_text_limit
\* is the rest of it.
handle_text(u, text, written, replied) ==
  /\ hnd.pc = "idle"
  /\ \/ HandlerRaises(u)
     \/ /\ ~NotADict
        /\ LET d == ensure_user(load_data, u)
               username == Username(text) IN
             IF u \notin adding
               THEN /\ reply' = Reply("other", u)
                    /\ UNCHANGED <<store, adding, hnd, added, told>>
             ELSE IF AtLimit(d, u)
               THEN /\ hnd' = [pc |-> "limit", user |-> u, data |-> d]
                    /\ reply' = Reply("limit", u)
                    /\ UNCHANGED <<store, adding, added, told>>
             ELSE IF username = None
               THEN /\ adding' = IF replied THEN adding \ {u} ELSE adding
                    /\ reply' = Reply("invalid", u)
                    /\ UNCHANGED <<store, hnd, added, told>>
             ELSE IF Already(d, u, username)
               THEN /\ adding' = IF replied THEN adding \ {u} ELSE adding
                    /\ reply' = Reply("already", u)
                    /\ UNCHANGED <<store, hnd, added, told>>
             ELSE /\ store' = save_data(SetLastId(d, u, username, None), written)
                  /\ adding' = adding \ {u}
                  /\ added' = IF written /\ InCycle THEN added \cup {<<u, username>>} ELSE added
                  /\ told' = Pop(told, <<u, username>>)
                  /\ reply' = Reply("added", u)
                  /\ hnd' = hnd
  /\ UNCHANGED <<trackerVars, cycleHist>>

\* Lines 196-198, once the reply of line 195 has returned; nothing of
\* them when it has raised.
handle_text_limit(written, replied) ==
  /\ hnd.pc = "limit"
  /\ adding' = IF replied THEN adding \ {hnd.user} ELSE adding
  /\ store' = IF replied THEN save_data(hnd.data, written) ELSE store
  /\ hnd' = Idle
  /\ reply' = Reply("other", hnd.user)
  /\ UNCHANGED <<trackerVars, cycleHist, added, told>>

\* Lines 218-230: the menu of the accounts to remove; nothing is saved.
remove(u) ==
  /\ hnd.pc = "idle"
  /\ \/ HandlerRaises(u)
     \/ /\ ~NotADict
        /\ reply' = Reply("other", u)
        /\ UNCHANGED <<store, adding, hnd, added, told>>
  /\ UNCHANGED <<trackerVars, cycleHist>>

\* Lines 232-252: a button of the menu, acc = None being its Close button.
callback_remove(u, acc, written) ==
  /\ hnd.pc = "idle"
  /\ \/ HandlerRaises(u)
     \/ /\ ~NotADict
        /\ LET d == ensure_user(load_data, u) IN
             IF acc = None
               THEN /\ reply' = Reply("other", u)
                    /\ UNCHANGED <<store, added, told>>
             ELSE IF acc \in DOMAIN Accounts(d, u)
               THEN /\ store' = save_data(Put(d, u, Pop(Accounts(d, u), acc)), written)
                    /\ added' = added \ {<<u, acc>>}
                    /\ told' = Pop(told, <<u, acc>>)
                    /\ reply' = Reply("removed", u)
             ELSE /\ reply' = Reply("other", u)
                  /\ UNCHANGED <<store, added, told>>
        /\ UNCHANGED <<adding, hnd>>
  /\ UNCHANGED <<trackerVars, cycleHist>>

\* The file the process finds when it starts: none, one that does not
\* parse, one that holds no JSON object, or the one an earlier run left, in
\* which the silent subscribers watch target 1 and have seen its post 1.
Init ==
  /\ store \in {File("absent", EmptyMap), File("corrupt", EmptyMap),
                File("malformed", EmptyMap),
                File("json", [u \in Subs \ Callers |-> [t \in {1} |-> 1]])}
  /\ adding = {}
  /\ pc = "load"
  /\ data = EmptyMap
  /\ watch_map = EmptyMap
  /\ todo = {}
  /\ cur = None /\ latest = None /\ users = {} /\ curUser = None
  /\ hnd = Idle
  /\ log = EmptyMap
  /\ sent = EmptyMap
  /\ added = {}
  /\ told = EmptyMap
  /\ reply = NoReply
  /\ failed = {}

\* The state after four watches were added, the first of them after the
\* last cycle, which has seen the second target at post 2 (its page now
\* shows post 1) and the targets of the others at post 1.
InitCap ==
  /\ store = File("json", [u \in CapSubs |-> [t \in 1..(MAX_ACCOUNTS - 1) |->
                             IF t = 1 THEN None ELSE IF t = 2 THEN 2 ELSE 1]])
  /\ adding = {}
  /\ pc = "load"
  /\ data = EmptyMap
  /\ watch_map = EmptyMap
  /\ todo = {}
  /\ cur = None /\ latest = None /\ users = {} /\ curUser = None
  /\ hnd = Idle
  /\ log = EmptyMap
  /\ sent = EmptyMap
  /\ added = {}
  /\ told = EmptyMap
  /\ reply = NoReply
  /\ failed = {}

\* The tracker and the handlers, given the values their inputs are drawn
\* from: the usernames and what their pages answer, the users, the texts
\* and buttons they send, and whether a write of the file takes place.
TrackerOf(names, responses, subs, writes) ==
  \/ TrackerLoad
  \/ \E t \in names, resp \in responses : TrackerFetch(t, resp)
  \/ \E u \in subs : TrackerCompare(u)
  \/ \E delivered \in BOOLEAN, written \in writes : TrackerNotify(delivered, written)
  \/ TrackerWake

HandlersOf(callers, texts, buttons, writes, replies) ==
  \/ \E u \in callers, written \in writes : start(u, written)
  \/ \E u \in callers, written \in writes, replied \in replies :
       add(u, written, replied)
  \/ \E u \in callers, text \in texts, written \in writes, replied \in replies :
       handle_text(u, text, written, replied)
  \/ \E u \in callers : remove(u)
  \/ \E u \in callers, acc \in buttons, written \in writes : callback_remove(u, acc, written)

\* Every write takes place.  With fewer usernames than MAX_ACCOUNTS no
\* handler ever waits at line 195.
Tracker == TrackerOf(Targets, Responses, Subs, {TRUE})

Next == Tracker \/ HandlersOf(Callers, Texts, {None} \cup Targets, {TRUE}, {TRUE})

Spec == Init /\ [][Next]_vars

\* The tracker gets its turn again once what it awaits (a fetch and a
\* send_message with timeouts, a sleep) is over.
SpecLive == Spec /\ WF_vars(Tracker)

\* A write may fail.
NextDisk ==
  \/ TrackerOf(Targets, Responses, Subs, BOOLEAN)
  \/ HandlersOf(Callers, Texts, {None} \cup Targets, BOOLEAN, {TRUE})

SpecDisk == Init /\ [][NextDisk]_vars

\* The capacity scenario.
NextCap ==
  \/ TrackerOf(1..(MAX_ACCOUNTS + 1), CapResponses, CapSubs, {TRUE})
  \/ HandlersOf(CapSubs, CapTexts, {None} \cup CapNames, {TRUE}, {TRUE})
  \/ \E replied \in BOOLEAN : handle_text_limit(TRUE, replied)

SpecCap == InitCap /\ [][NextCap]_vars

\* A reply of a handler may raise.
NextReply ==
  \/ Tracker
  \/ HandlersOf(Callers, Texts, {None} \cup Targets, {TRUE}, BOOLEAN)

SpecReply == Init /\ [][NextReply]_vars

\* ===================================================== the properties
\* The steps of the tracker, told by what they change.
FetchStep == pc = "fetch" /\ todo' # todo
CompareStep == pc = "diff" /\ users' # users
NotifyStep == pc = "send" /\ pc' # "send"

\* The watch a notify step is about.
Watch == <<curUser, cur>>

\* C1: a watch whose cursor is None is seeded without a notification: the
\* tracker never calls send_message for a watch whose stored id is None.
C1_SeededWithoutNotification ==
  pc = "send" => LastId(data, curUser, cur) # None

\* C2: when the fetched id differs from the stored one, the comparison leads
\* to one send_message for that watch, the only one of the cycle, and once
\* it has returned or raised the stored id is the fetched one, in data and,
\* when the write took place, in the file.
C2_NewPostNotifiedOnceAndAdvanced ==
  [][/\ (CompareStep /\ \E u \in users \ users' : LastId(data, u, cur) # latest)
          => /\ pc' = "send"
             /\ curUser' \in users \ users'
             /\ LastId(data', curUser', cur') # latest'
             /\ <<curUser', cur'>> \notin DOMAIN sent'
     /\ NotifyStep
          => /\ sent' = Put(sent, Watch, <<Message(curUser, cur, latest)>>)
             /\ LastId(data', curUser, cur) = latest
             /\ store' \in {store, File("json", data')}
             /\ reply'.msg \in {"delivered", "undelivered"}
             /\ reply'.user = curUser]_vars

\* C2 witness: a notification to a silent subscriber (whose stored id is
\* never None) was not delivered, and the fetched id is stored and written.
C2_Witness ==
  /\ reply.msg = "undelivered"
  /\ LastId(data, reply.user, cur) = latest
  /\ store = File("json", data)
  /\ Len(sent[<<reply.user, cur>>]) = 1
  /\ reply.user \notin Callers

\* C3: when the fetched id equals the stored one, the comparison sends
\* nothing and changes neither data nor the file.
C3_SamePostChangesNothing ==
  [][(CompareStep /\ \E u \in users \ users' : LastId(data, u, cur) = latest)
       => /\ pc' # "send"
          /\ data' = data
          /\ store' = store
          /\ sent' = sent]_vars

\* C3 witness: a user of the current username was compared, nothing was
\* sent to it and its stored id is the fetched one.
C3_Witness ==
  /\ pc \in {"diff", "fetch", "sleep"}
  /\ cur \in DOMAIN watch_map
  /\ store.kind = "json"
  /\ \E u \in watch_map[cur] \ users :
       /\ <<u, cur>> \notin DOMAIN sent
       /\ LastId(data, u, cur) = latest
       /\ LastId(store.map, u, cur) = latest

\* C4: a watch added (and written) while a cycle is in progress, and not
\* removed by its subscriber, is in the file when the cycle has finished.
C4_AddNotLost ==
  pc = "sleep" => \A w \in added : w[2] \in Watches(w[1])

\* C7: while the fetch of a target keeps returning the same id and the
\* watch stays in place, the user is not notified about that id again.
\* Stated for a watch that has a stored id; the first fetch of a watch that
\* has none is C1's.
C7_NotifiedOnce ==
  (pc = "send" /\ LastId(data, curUser, cur) # None)
    => Get(told, Watch, None) # latest

\* C8: a fetch that returns None changes nothing and sends nothing, and the
\* cycle goes on: every other username of watch_map has its fetch, and the
\* users of a username whose fetch returned an id end the cycle with that
\* id stored; a step about one username touches no other watch.
C8_FetchFailureIsolated ==
  /\ [](pc = "sleep" =>
          /\ DOMAIN log = DOMAIN watch_map
          /\ \A t \in DOMAIN log :
               /\ Len(log[t]) = 1
               /\ log[t][1] = None => \A u \in watch_map[t] : <<u, t>> \notin DOMAIN sent
               /\ log[t][1] # None => \A u \in watch_map[t] : LastId(data, u, t) = log[t][1])
  /\ [][/\ (FetchStep /\ \E t \in todo \ todo' : log'[t][Len(log'[t])] = None)
             => /\ data' = data
                /\ store' = store
                /\ sent' = sent
                /\ pc' \in {"fetch", "sleep"}
        /\ (CompareStep \/ NotifyStep)
             => /\ log[cur] = <<latest>>
                /\ latest # None
                /\ \A w \in DOMAIN sent' \ DOMAIN sent : w[2] = cur
                /\ \A u \in DOMAIN data : \A t \in DOMAIN data[u] :
                     t # cur => LastId(data', u, t) = data[u][t]]_vars

\* C8 witness: a cycle has ended in which one fetch returned None and
\* another an id about which a user was notified.
C8_Witness ==
  /\ pc = "sleep"
  /\ \E a \in DOMAIN log, b \in DOMAIN log :
       /\ log[a] = <<None>>
       /\ log[b] # <<None>>
       /\ \E u \in watch_map[b] : <<u, b>> \in DOMAIN sent

\* C9: in a cycle every username of the snapshot is fetched once, however
\* many users watch it, and nothing else is fetched.
C9_EachTargetFetchedOnce ==
  /\ DOMAIN watch_map = UNION {DOMAIN data[u] : u \in DOMAIN data}
  /\ \A t \in DOMAIN log : t \in DOMAIN watch_map /\ Len(log[t]) = 1
  /\ DOMAIN log = DOMAIN watch_map \ todo
  /\ pc = "sleep" => todo = {}

\* C9 witness: a cycle has ended that fetched two usernames, one of them
\* watched by two users.
C9_Witness ==
  /\ pc = "sleep"
  /\ Cardinality(DOMAIN log) >= 2
  /\ \E t \in DOMAIN log : Cardinality(watch_map[t]) >= 2

\* A step of a handler: it leaves the variables of the tracker alone.
HandlerStep == UNCHANGED trackerVars

\* C5: for a subscriber with MAX_ACCOUNTS watches in the file, /add answers
\* "Max 5 accounts allowed" and does not set the adding flag, a text sent
\* with the flag set answers "Limit reached!" and adds no watch, and when
\* the handler has finished the watch set of the subscriber in the file is
\* the one it found.
C5_AddAtLimitRejected ==
  [][\A u \in CapSubs :
       LET full == Cardinality(Watches(u)) >= MAX_ACCOUNTS IN
       /\ (HandlerStep /\ full /\ hnd.pc = "idle")
            => /\ (u \in adding') = (u \in adding)
               /\ Watches(u)' \subseteq Watches(u)
               /\ u \in adding => \/ hnd'.pc = "limit" /\ hnd'.user = u
                                  \/ reply'.msg # "limit"
       /\ (reply'.msg = "max" /\ reply'.user = u)
            => full /\ Watches(u)' = Watches(u)
       /\ (hnd.pc = "idle" /\ hnd'.pc = "limit" /\ hnd'.user = u)
            => /\ full
               /\ reply' = [user |-> u, msg |-> "limit"]
               /\ store' = store
               /\ DOMAIN Accounts(hnd'.data, u) = Watches(u)
       /\ (hnd.pc = "limit" /\ hnd'.pc = "idle" /\ hnd.user = u)
            => Watches(u)' = DOMAIN Accounts(hnd.data, u)]_vars

\* C5 witness: a text was answered "Limit reached!" and, while the handler
\* waits for its reply to return, the tracker has written the file.
C5_Witness ==
  /\ hnd.pc = "limit"
  /\ Cardinality(DOMAIN Accounts(hnd.data, hnd.user)) = MAX_ACCOUNTS
  /\ store.map # hnd.data

\* C6: no subscriber has more than MAX_ACCOUNTS watches in the file.
C6_AtMostMaxAccounts ==
  \A u \in DOMAIN load_data : Cardinality(Watches(u)) <= MAX_ACCOUNTS

\* C6 witness: a subscriber has MAX_ACCOUNTS watches and the adding flag
\* set while the tracker waits in send_message.
C6_Witness ==
  /\ pc = "send"
  /\ \E u \in adding : Cardinality(Watches(u)) = MAX_ACCOUNTS

\* C10: wherever the tracker is in a cycle, it reaches its sleep, and from
\* its sleep it starts the next cycle.
C10_TrackerNeverStops ==
  /\ (pc = "load") ~> (pc = "sleep")
  /\ (pc = "fetch") ~> (pc = "sleep")
  /\ (pc = "diff") ~> (pc = "sleep")
  /\ (pc = "send") ~> (pc = "sleep")
  /\ (pc = "sleep") ~> (pc = "load")
  /\ [](pc \in {"load", "fetch", "diff", "send", "sleep"})

\* C10 witness: the tracker sleeps after data.items() has raised.
C10_Witness ==
  /\ pc = "sleep"
  /\ NotADict
\* The watch set of user u in the dict d.
WatchSet(d, u) == DOMAIN Accounts(d, u)

\* C11: a write of the tracker leaves the watch set of every user in the
\* file as it was just before the write.
C11_TrackerWritesOnlyCursors ==
  [][NotifyStep => \A u \in Subs : WatchSet(store'.map, u) = WatchSet(store.map, u)]_vars
\* The file is absent or does not parse.
Unreadable == store.kind \in {"absent", "corrupt"}

\* C12: load_data of an absent or corrupt file is the empty dict, and the
\* cycle that loads it fetches nothing, sends nothing, writes nothing and
\* goes to its sleep.
C12_UnreadableStoreIsEmpty ==
  /\ [](Unreadable => load_data = EmptyMap)
  /\ [][(pc = "load" /\ pc' # "load" /\ Unreadable)
          => /\ data' = EmptyMap
             /\ watch_map' = EmptyMap
             /\ pc' = "sleep"
             /\ store' = store
             /\ log' = EmptyMap
             /\ sent' = EmptyMap]_vars
  /\ []((pc = "sleep" /\ data = EmptyMap) => (log = EmptyMap /\ sent = EmptyMap))

\* C12 witness: the tracker sleeps after it has loaded a file that does
\* not parse.
C12_Witness ==
  /\ pc = "sleep"
  /\ store.kind = "corrupt"
  /\ data = EmptyMap
  /\ log = EmptyMap
\* The post id of the notification attempted for watch w in this cycle.
SentId(w) == sent[w][1].link[2]

\* C13: a write of the tracker that fails leaves the file as it was and the
\* fetched id in data, the loops go on as after a write that took place,
\* and a write that takes place puts into the file every id set in this
\* cycle, those of the failed writes included.
C13_FailedWriteKeptInMemory ==
  [][NotifyStep
       => /\ LastId(data', curUser, cur) = latest
          /\ pc' = AfterUser(users, todo)
          /\ users' = users
          /\ todo' = todo
          /\ \A w \in DOMAIN sent' : LastId(data', w[1], w[2]) = SentId(w)'
          /\ store' # File("json", data') => store' = store
          /\ Watch \notin failed'
               => /\ store' = File("json", data')
                  /\ \A w \in failed : LastId(store'.map, w[1], w[2]) = SentId(w)]_vars

\* C13 witness: a write of the tracker has taken place after one of the
\* same cycle had failed, and the file holds the id of the failed one.
C13_Witness ==
  /\ reply.msg \in {"delivered", "undelivered"}
  /\ failed # {}
  /\ <<reply.user, cur>> \notin failed
  /\ store = File("json", data)
  /\ \A w \in failed : LastId(store.map, w[1], w[2]) = SentId(w)
\* C14: the notification of a watch goes to the chat of its user, names its
\* username, and its link is made of that username and of the id the fetch
\* of this cycle returned for it, which is the id stored for the watch
\* right after.
C14_NotificationNamesTargetAndPost ==
  [][NotifyStep
       => LET m == sent'[Watch][Len(sent'[Watch])] IN
            /\ m.chat = curUser
            /\ m.name = cur
            /\ m.link = <<cur, log[cur][1]>>
            /\ m.link[2] = LastId(data', curUser, cur)]_vars

\* C14 witness: a user was notified about a post whose id is not the
\* number of its username, and that id is stored for the watch.
C14_Witness ==
  /\ reply.msg = "delivered"
  /\ <<reply.user, cur>> \in DOMAIN sent
  /\ sent[<<reply.user, cur>>][1].link = <<cur, latest>>
  /\ cur # latest
  /\ LastId(data, reply.user, cur) = latest
\* C15: a text that names a username its user already watches is answered
\* "already in your list" and leaves the file as it is; no text handled
\* with the flag set changes the file without adding a watch.
C15_AddExistingChangesNothing ==
  [][\A u \in Subs :
       /\ (reply'.msg = "already" /\ reply'.user = u)
            => /\ store' = store
               /\ u \in adding
       /\ (HandlerStep /\ hnd.pc = "idle" /\ u \in adding /\ u \notin adding'
             /\ WatchSet(store'.map, u) = WatchSet(store.map, u))
            => store' = store]_vars

\* C15 witness: a user was answered "already in your list" whose only watch
\* has a stored id.
C15_Witness ==
  /\ reply.msg = "already"
  /\ \E t \in Targets :
       /\ Watches(reply.user) = {t}
       /\ LastId(store.map, reply.user, t) # None
\* C16: a send_message that raises ends neither loop: the stored id is set,
\* the users of the username that are left and the usernames that are left
\* stay to be taken, and the next of them is taken; so a cycle ends with
\* the fetched id stored for every user of every username whose fetch
\* returned one.
C16_DeliveryFailureIsolated ==
  /\ [][(NotifyStep /\ reply'.msg = "undelivered")
          => /\ LastId(data', curUser, cur) = latest
             /\ users' = users
             /\ todo' = todo
             /\ users # {} => pc' = "diff"
             /\ (users = {} /\ todo # {}) => pc' = "fetch"
             /\ (users = {} /\ todo = {}) => pc' = "sleep"]_vars
  /\ [](pc = "sleep" =>
          \A t \in DOMAIN watch_map : \A u \in watch_map[t] :
            \/ log[t] = <<None>>
            \/ log[t] = <<LastId(data, u, t)>>)

\* C16 witness: a send_message has raised, and the tracker stands before
\* the next user of the same username, with another username left.
C16_Witness ==
  /\ reply.msg = "undelivered"
  /\ pc = "diff"
  /\ users # {}
  /\ todo # {}
\* The watch of user u on username t is in the file, and a fetch of t in
\* this cycle, if there was one, has returned x.
SteadyAt(u, t, x) ==
  /\ t \in Watches(u)
  /\ t \in DOMAIN log => log[t] = <<x>>

\* C17: if from some time on the watch of u on t stays in the file and
\* every fetch of t returns x, then time and again (so also after that
\* time) the id stored in the file for the watch is x.
C17_CursorCatchesUp ==
  \A u \in Subs : \A t \in Targets : \A x \in PostIds :
    <>[]SteadyAt(u, t, x) => []<>(LastId(store.map, u, t) = x)

\* C17 witness: a cycle has ended in which the fetch of a username returned
\* an id that was not the stored one of a watch, and the file holds it now.
C17_Witness ==
  /\ pc = "sleep"
  /\ \E w \in DOMAIN sent :
       /\ w[2] \in Watches(w[1])
       /\ log[w[2]] = <<SentId(w)>>
       /\ LastId(store.map, w[1], w[2]) = SentId(w)
\* C18: a write of a handler changes the watch set of one user at most, and
\* leaves the stored id of every watch that is in the file before and after
\* it as it was.
C18_HandlerWritesOwnEntryOnly ==
  [][(HandlerStep /\ store' # store)
       => /\ Cardinality({u \in DOMAIN store.map \cup DOMAIN store'.map :
                            WatchSet(store'.map, u) # WatchSet(store.map, u)}) <= 1
          /\ \A u \in DOMAIN store.map :
               \A t \in WatchSet(store.map, u) \cap WatchSet(store'.map, u) :
                 LastId(store'.map, u, t) = LastId(store.map, u, t)]_vars
\* C19: a handler adds a watch for a user only when the flag of the user
\* is set, one watch, and clears the flag with it; the flag is set only
\* while the user has fewer than MAX_ACCOUNTS watches, by a handler that
\* leaves the watches alone; and a text handled with the flag set (answered
\* "Invalid username", "already in your list", "Added" or "Limit reached!")
\* leaves the flag cleared.
C19_AddingFlagProtocol ==
  [][\A u \in Subs :
       /\ (HandlerStep /\ ~(WatchSet(store'.map, u) \subseteq WatchSet(store.map, u)))
            => /\ u \in adding
               /\ u \notin adding'
               /\ Cardinality(WatchSet(store'.map, u) \ WatchSet(store.map, u)) = 1
       /\ (u \notin adding /\ u \in adding')
            => /\ HandlerStep
               /\ Cardinality(Watches(u)) < MAX_ACCOUNTS
               /\ WatchSet(store'.map, u) = WatchSet(store.map, u)
       /\ (reply'.msg \in {"invalid", "already", "added"} /\ reply'.user = u)
            => /\ u \in adding
               /\ u \notin adding'
       /\ (hnd.pc = "limit" /\ hnd.user = u /\ hnd'.pc = "idle")
            => u \notin adding']_vars
====
